---- MODULE Spec2Model ----
(***************************************************************************)
(* Model of batchflow's ResBlock layout compiler                           *)
(* (batchflow/models/eager_torch/resnet.py) and of the DropBlock operator  *)
(* (batchflow/models/tf/layers/drop_block.py).                             *)
(*                                                                         *)
(* Python values are modelled as tagged records, so that an int, a list    *)
(* and a str argument are distinguishable the way isinstance tells them    *)
(* apart.  A raised exception is a result whose status is "error".         *)
(***************************************************************************)
EXTENDS Integers, Sequences, FiniteSets, TLC

VARIABLES resArgs, resBlock, dropArgs, dropOut

vars == <<resArgs, resBlock, dropArgs, dropOut>>

(***************************************************************************)
(* Bounds of the model.                                                    *)
(***************************************************************************)
\* filter counts and strides range over 1..MaxVal
MaxVal == 2
\* n_reps ranges over 0..MaxReps
MaxReps == 2
\* each spatial extent of a dropblock input ranges over 1..MaxExtent
MaxExtent == 4
\* the channel count of a dropblock input ranges over 1..MaxChannels
MaxChannels == 2
\* channels * prod(spatial extents) of a dropblock input is at most MaxMaskSize
MaxMaskSize == 8

(***************************************************************************)
(* Python values.                                                          *)
(***************************************************************************)
IntArg(n) == [tag |-> "int", n |-> n, l |-> <<>>, s |-> ""]
ListArg(l) == [tag |-> "list", n |-> 0, l |-> l, s |-> ""]
StrArg(s) == [tag |-> "str", n |-> 0, l |-> <<>>, s |-> s]
ErrArg(e) == [tag |-> "error", n |-> 0, l |-> <<>>, s |-> e]

BoolFlag(b) == [tag |-> "bool", b |-> b, n |-> 0]
IntFlag(n) == [tag |-> "int", b |-> FALSE, n |-> n]

\* Python truth value of a bool or an int
Truthy(f) == IF f.tag = "bool" THEN f.b ELSE f.n # 0

\* `x is True`: only the bool True, never the int 1
IsTrue(f) == f.tag = "bool" /\ f.b

\* [x] * n ; a negative n gives the empty list
Repeat(x, n) == [i \in 1..n |-> x]

\* np.prod over a list of ints; 1 for the empty list
RECURSIVE NpProd(_)
NpProd(l) == IF l = <<>> THEN 1 ELSE Head(l) * NpProd(Tail(l))

Last(l) == l[Len(l)]

(***************************************************************************)
(* ResBlock.__init__                                                       *)
(***************************************************************************)
CONV_LETTERS == {"c", "C", "w", "W", "t", "T"}

\* num_convs = sum([letter in CONV_LETTERS for letter in layout])
NumConvs(layout) == Cardinality({i \in 1..Len(layout) : layout[i] \in CONV_LETTERS})

\* eval(filters, {}, {'S': n, 'same': n}) for the expressions of FilterExprs
EvalFilters(expr, in_channels) ==
    CASE expr = "same" -> IntArg(in_channels)
      [] expr = "S" -> IntArg(in_channels)
      [] expr = "S*2" -> IntArg(in_channels * 2)
      [] OTHER -> ErrArg("NameError")

\* x = [x] * num_convs if isinstance(x, int) else x
Broadcast(x, num_convs) == IF x.tag = "int" THEN Repeat(x.n, num_convs) ELSE x.l

\* groups = [groups] * num_convs, whatever the type of groups
BroadcastGroups(groups, num_convs) == Repeat(groups, num_convs)

\* variant: strides_d = strides, both names on one list object
StridesDShared(strides) == [items |-> strides, shares |-> TRUE]

\* strides_d = list(strides): a new list object, not sharing with strides
StridesDCopy(strides) == [items |-> strides, shares |-> FALSE]

\* downsample = 2 if downsample is True else downsample
DownsampleFactor(downsample) == IF IsTrue(downsample) THEN 2 ELSE downsample.n

\* bottleneck = 4 if bottleneck is True else bottleneck
BottleneckFactor(bottleneck) == IF IsTrue(bottleneck) THEN 4 ELSE bottleneck.n

\* strides_d[0] *= downsample
MulFirst(l, d) == [l EXCEPT ![1] = @ * d]

\* [1] + x + [1]
Wrap1(l) == <<1>> \o l \o <<1>>

\* variant: the expand convolution scaled from the last filter, not the first
BottleneckFiltersFromLast(filters, k) ==
    <<filters[1]>> \o filters \o <<filters[Len(filters)] * k>>

\* filters = [filters[0]] + filters + [filters[0] * bottleneck]
BottleneckFilters(filters, k) == <<filters[1]>> \o filters \o <<filters[1] * k>>

\* variant: the downsample factor never reaches the side branch
SideBranchStrideDPlain(side_branch_stride, downsample) == side_branch_stride

\* side_branch_stride_d = int(side_branch_stride); *= downsample when truthy
SideBranchStrideD(side_branch_stride, downsample) ==
    IF Truthy(downsample)
    THEN side_branch_stride * DownsampleFactor(downsample)
    ELSE side_branch_stride

\* one entry of layer_params: the first carries two keys, the others are {}
FirstParams(strides_d, sbs_d) == [keys |-> {"strides", "side_branch/strides"},
                                  strides |-> strides_d, side_branch_strides |-> sbs_d]
EmptyParams == [keys |-> {}, strides |-> <<>>, side_branch_strides |-> 0]

\* variant: [{}] * n_reps, one repetition too many
LayerParamsExtra(first, n_reps) == <<first>> \o [i \in 1..n_reps |-> EmptyParams]

\* layer_params = [{...}] + [{}] * (n_reps - 1)
LayerParams(first, n_reps) == <<first>> \o Repeat(EmptyParams, n_reps - 1)

ErrorBlock(exc, caller_strides) ==
    [status |-> "error", exc |-> exc, layer_params |-> <<>>, layout |-> <<>>,
     filters |-> <<>>, kernel_size |-> <<>>, strides |-> <<>>, groups |-> <<>>,
     side_branch |-> [layout |-> <<>>, filters |-> 0, strides |-> 0],
     caller_strides |-> caller_strides]

\* The whole constructor: the arguments of ConvBlock(...) it ends with, or the
\* exception it raises.  caller_strides is the content, after the call, of the
\* list object the caller passed as strides (<<>> when an int was passed).
ResBlockInit(a) ==
    LET num_convs == NumConvs(a.layout)
        evald == IF a.filters.tag = "str"
                 THEN EvalFilters(a.filters.s, a.in_channels) ELSE a.filters
        filters == Broadcast(evald, num_convs)
        kernel_size == Broadcast(a.kernel_size, num_convs)
        strides0 == Broadcast(a.strides, num_convs)
        copy == StridesDCopy(strides0)
        groups == BroadcastGroups(a.groups, num_convs)
        side_branch_stride == NpProd(strides0)
        side_branch_stride_d == SideBranchStrideD(side_branch_stride, a.downsample)
        ds == Truthy(a.downsample)
        bn == Truthy(a.bottleneck)
        strides_d1 == IF ds THEN MulFirst(copy.items, DownsampleFactor(a.downsample))
                      ELSE copy.items
        \* a write through strides_d reaches strides only if they share the object
        strides1 == IF copy.shares THEN strides_d1 ELSE strides0
        \* strides is the caller's own list when a list was passed (line 38)
        caller == IF a.strides.tag = "list" THEN strides1 ELSE <<>>
        caller0 == IF a.strides.tag = "list" THEN strides0 ELSE <<>>
        layout2 == IF bn THEN <<"c", "n", "a">> \o a.layout \o <<"c", "n", "a">>
                   ELSE a.layout
        kernel_size2 == IF bn THEN Wrap1(kernel_size) ELSE kernel_size
        strides2 == IF bn THEN Wrap1(strides1) ELSE strides1
        strides_d2 == IF bn THEN Wrap1(strides_d1) ELSE strides_d1
        groups2 == IF bn THEN <<IntArg(1)>> \o groups \o <<IntArg(1)>> ELSE groups
        filters2 == IF bn THEN BottleneckFilters(filters, BottleneckFactor(a.bottleneck))
                    ELSE filters
    IN  IF evald.tag = "error" THEN ErrorBlock(evald.s, caller0)
        ELSE IF ds /\ copy.items = <<>> THEN ErrorBlock("IndexError", caller0)
        ELSE IF filters = <<>> THEN ErrorBlock("IndexError", caller)
        ELSE [status |-> "ok", exc |-> "",
              layer_params |-> LayerParams(FirstParams(strides_d2, side_branch_stride_d),
                                           a.n_reps),
              layout |-> <<"B">> \o layout2 \o <<a.op>>,
              filters |-> filters2,
              kernel_size |-> kernel_size2,
              strides |-> strides2,
              groups |-> groups2,
              side_branch |-> [layout |-> <<"c">>, filters |-> Last(filters2),
                               strides |-> side_branch_stride],
              caller_strides |-> caller]

(***************************************************************************)
(* ConvBlock called with the layer_params dicts: one repetition per        *)
(* dict, each built from the kwargs updated with that dict; the key        *)
(* 'side_branch/strides' addresses the strides of the side_branch dict.    *)
(***************************************************************************)
NumRepetitions(block) == Len(block.layer_params)

RepStrides(block, i) ==
    IF "strides" \in block.layer_params[i].keys
    THEN block.layer_params[i].strides ELSE block.strides

RepSideBranchStrides(block, i) ==
    IF "side_branch/strides" \in block.layer_params[i].keys
    THEN block.layer_params[i].side_branch_strides ELSE block.side_branch.strides

RepSideBranchFilters(block, i) == block.side_branch.filters

(***************************************************************************)
(* Inputs of a ResBlock construction.                                      *)
(***************************************************************************)
Vals == 1..MaxVal

Layouts == { <<"n", "a">>,
             <<"c", "n", "a">>,
             <<"c", "n", "a", "c", "n", "a">>,
             <<"n", "W", "a", "T">> }

FilterExprs == {"same", "S*2", "width"}

\* every list over vals with exactly n entries
Lists(vals, n) == [1..n -> vals]

\* an int, a list with one entry per convolution, or a list that is one entry
\* short or one entry long
SeqArgs(vals, n) ==
    {IntArg(v) : v \in vals}
      \cup {ListArg(l) : l \in Lists(vals, n)}
      \cup {ListArg(Repeat(MaxVal, m)) : m \in {n - 1, n + 1} \cap Nat}

KernelArgs(n) == {IntArg(3), ListArg(Repeat(3, n)), ListArg(Repeat(3, n + 1))}

GroupArgs(n) == {IntArg(1), IntArg(32), ListArg(Repeat(32, n)), ListArg(Repeat(32, n + 1))}

Flags == {BoolFlag(FALSE), BoolFlag(TRUE), IntFlag(0), IntFlag(1), IntFlag(3)}

ResArgs ==
    UNION { [layout : {lay},
             in_channels : {3},
             filters : SeqArgs(Vals, NumConvs(lay)) \cup {StrArg(e) : e \in FilterExprs},
             kernel_size : KernelArgs(NumConvs(lay)),
             strides : SeqArgs(Vals, NumConvs(lay)),
             downsample : Flags,
             bottleneck : Flags,
             groups : GroupArgs(NumConvs(lay)),
             op : {"+"},
             n_reps : 0..MaxReps] : lay \in Layouts }

NoArgs == <<>>
NoBlock == <<>>

(***************************************************************************)
(* State machine of a construction: the arguments are chosen, then the     *)
(* constructor runs once.                                                  *)
(***************************************************************************)
InitRes ==
    /\ resArgs \in {<<a>> : a \in ResArgs}
    /\ resBlock = NoBlock
    /\ dropArgs = NoArgs
    /\ dropOut = <<>>

Construct ==
    /\ resArgs # NoArgs
    /\ resBlock = NoBlock
    /\ resBlock' = <<ResBlockInit(resArgs[1])>>
    /\ UNCHANGED <<resArgs, dropArgs, dropOut>>

NextRes == Construct

SpecRes == InitRes /\ [][NextRes]_vars

Built == resBlock # NoBlock /\ resBlock[1].status = "ok"

(***************************************************************************)
(* dropblock / _dropblock                                                  *)
(*                                                                         *)
(* A tensor is known by its shape; a 0/1 mask is the set of its elements   *)
(* that are 1, an element being <<channel, position>> with a 0-based       *)
(* position per spatial dimension.  dropout_rate is a rational <<p, q>>.   *)
(* The batch extent of the input is 1 throughout: the mask has batch       *)
(* extent 1 and is broadcast over the batch.                               *)
(***************************************************************************)
Min2(a, b) == IF a < b THEN a ELSE b
Max2(a, b) == IF a > b THEN a ELSE b

TupleArg(l) == [tag |-> "tuple", n |-> 0, l |-> l, s |-> ""]
FloatArg == [tag |-> "float", n |-> 0, l |-> <<>>, s |-> ""]

\* spatial_dims = input_shape[2:] or input_shape[1:-1]
SpatialDims(shape, data_format) ==
    IF data_format = "channels_first"
    THEN SubSeq(shape, 3, Len(shape))
    ELSE SubSeq(shape, 2, Len(shape) - 1)

\* channels = input_shape[1:2] or input_shape[-1:]
Channels(shape, data_format) ==
    IF data_format = "channels_first" THEN shape[2] ELSE shape[Len(shape)]

\* variant: logical_and in place of logical_or
DropblockPredAnd(is_training, dropout_rate) == (~is_training) /\ dropout_rate[1] = 0

\* tf.logical_or(tf.logical_not(is_training), tf.equal(dropout_rate, 0.0))
DropblockPred(is_training, dropout_rate) == (~is_training) \/ dropout_rate[1] = 0

\* the isinstance chain on block_size: the per-dimension list, or ValueError
BlockSizeList(block_size, spatial_ndim) ==
    CASE block_size.tag = "int" -> ListArg(Repeat(block_size.n, spatial_ndim))
      [] block_size.tag = "tuple" ->
            IF Len(block_size.l) # spatial_ndim THEN ErrArg("ValueError")
            ELSE ListArg(block_size.l)
      [] OTHER -> ErrArg("ValueError")

\* block_size_tf = maximum(minimum(block_size_tf, spatial_dims), one)
BlockSizeTf(block_size, spatial_dims) ==
    [d \in 1..Len(spatial_dims) |-> Max2(Min2(block_size[d], spatial_dims[d]), 1)]

\* inner_area = spatial_dims - block_size_tf + one
InnerArea(spatial_dims, block_size_tf) ==
    [d \in 1..Len(spatial_dims) |-> spatial_dims[d] - block_size_tf[d] + 1]

\* gamma = dropout_rate * prod(spatial_dims) / prod(block_size_tf) / prod(inner_area)
Gamma(dropout_rate, spatial_dims, block_size_tf, inner_area) ==
    <<dropout_rate[1] * NpProd(spatial_dims),
      dropout_rate[2] * NpProd(block_size_tf) * NpProd(inner_area)>>

\* all positions of a tensor with the given spatial extents
RECURSIVE MaxOf(_)
MaxOf(l) == IF l = <<>> THEN 0 ELSE Max2(Head(l), MaxOf(Tail(l)))

Positions(dims) ==
    {p \in [1..Len(dims) -> 0..(MaxOf(dims) - 1)] : \A d \in 1..Len(dims) : p[d] < dims[d]}

Elements(channels, dims) == (1..channels) \X Positions(dims)

\* noise_dist.sample(sampling_mask_shape): every element is 1 with probability
\* gamma, so a mask is any set of elements, all of them when gamma >= 1 and
\* none when gamma <= 0
BernoulliSamples(gamma, channels, inner_area) ==
    IF gamma[1] >= gamma[2] THEN {Elements(channels, inner_area)}
    ELSE IF gamma[1] <= 0 THEN {{}}
    ELSE SUBSET Elements(channels, inner_area)

\* left_spatial_pad = (block_size_tf - one) // 2
LeftSpatialPad(block_size_tf) == [d \in 1..Len(block_size_tf) |-> (block_size_tf[d] - 1) \div 2]

\* right_spatial_pad = block_size_tf - one - left_spatial_pad
RightSpatialPad(block_size_tf, left) ==
    [d \in 1..Len(block_size_tf) |-> block_size_tf[d] - 1 - left[d]]

\* tf.pad(mask, pad_shape): zeros around, every 1 moves right by the left pad
PadMask(mask, left) ==
    {<<e[1], [d \in 1..Len(left) |-> e[2][d] + left[d]]>> : e \in mask}

PaddedDims(dims, left, right) == [d \in 1..Len(dims) |-> dims[d] + left[d] + right[d]]

\* pool_size = block_size: the Python list / tuple, not block_size_tf
PoolSize(block_size) == block_size

\* max_pooling(mask, pool_size, strides=1, padding='same') on a 0/1 mask:
\* 'same' pads pool_size - 1 zeros, (pool_size - 1) // 2 of them in front, so
\* output q is the max over inputs q - (k - 1) // 2 .. q - (k - 1) // 2 + k - 1
MaxPoolingSame(mask, channels, dims, pool_size) ==
    {e \in Elements(channels, dims) :
        \E m \in mask :
            /\ m[1] = e[1]
            /\ \A d \in 1..Len(dims) :
                  LET lo == e[2][d] - ((pool_size[d] - 1) \div 2)
                  IN  lo <= m[2][d] /\ m[2][d] <= lo + pool_size[d] - 1}

\* mask = tf.cast(1 - mask, tf.float32)
InvertMask(mask, channels, dims) == Elements(channels, dims) \ mask

\* tf.to_float(tf.size(mask))
MaskSize(channels, dims) == channels * NpProd(dims)

\* tf.reduce_sum(mask)
ReduceSum(kept) == Cardinality(kept)

\* variant: the divisor guarded against zero
RescaleGuarded(size, sum) ==
    [num |-> size, den |-> IF sum = 0 THEN 1 ELSE sum, finite |-> TRUE]

\* output * size / sum in float arithmetic: x / 0 is nan or inf, never an error
Rescale(size, sum) ==
    [num |-> size, den |-> sum, finite |-> sum # 0]

ErrorOut(exc) ==
    [status |-> "error", exc |-> exc, path |-> "", block_size_tf |-> <<>>,
     inner_area |-> <<>>, left_pad |-> <<>>, right_pad |-> <<>>, pool_size |-> <<>>,
     seeds |-> {}, dropped |-> {}, kept |-> {},
     scale |-> [num |-> 0, den |-> 0, finite |-> TRUE]]

IdentityOut ==
    [status |-> "ok", exc |-> "", path |-> "identity", block_size_tf |-> <<>>,
     inner_area |-> <<>>, left_pad |-> <<>>, right_pad |-> <<>>, pool_size |-> <<>>,
     seeds |-> {}, dropped |-> {}, kept |-> {},
     scale |-> [num |-> 1, den |-> 1, finite |-> TRUE]]

\* spatial_ndim = spatial_dims.get_shape().as_list()[0]
SpatialNdim(a) == Len(SpatialDims(a.shape, a.data_format))

\* _dropblock up to the sampling, for a block_size the isinstance chain accepts:
\* everything computed from the shapes
DropblockPlan(a) ==
    LET spatial_dims == SpatialDims(a.shape, a.data_format)
        channels == Channels(a.shape, a.data_format)
        block_size == BlockSizeList(a.block_size, SpatialNdim(a)).l
        block_size_tf == BlockSizeTf(block_size, spatial_dims)
        inner_area == InnerArea(spatial_dims, block_size_tf)
        left == LeftSpatialPad(block_size_tf)
        right == RightSpatialPad(block_size_tf, left)
    IN  [spatial_dims |-> spatial_dims, channels |-> channels,
         block_size_tf |-> block_size_tf, inner_area |-> inner_area,
         gamma |-> Gamma(a.dropout_rate, spatial_dims, block_size_tf, inner_area),
         left_pad |-> left, right_pad |-> right,
         padded_dims |-> PaddedDims(inner_area, left, right),
         pool_size |-> PoolSize(block_size)]

\* _dropblock from the sampled mask on
DropblockMasked(plan, seeds) ==
    LET padded == PadMask(seeds, plan.left_pad)
        pooled == MaxPoolingSame(padded, plan.channels, plan.padded_dims, plan.pool_size)
        kept == InvertMask(pooled, plan.channels, plan.padded_dims)
    IN  [status |-> "ok", exc |-> "", path |-> "masked",
         block_size_tf |-> plan.block_size_tf, inner_area |-> plan.inner_area,
         left_pad |-> plan.left_pad, right_pad |-> plan.right_pad,
         pool_size |-> plan.pool_size,
         seeds |-> seeds, dropped |-> pooled, kept |-> kept,
         scale |-> Rescale(MaskSize(plan.channels, plan.padded_dims), ReduceSum(kept))]

\* the pooling primitive rejects a window below 1
PoolSizeAccepted(pool_size) == \A d \in 1..Len(pool_size) : pool_size[d] >= 1

\* the results dropblock can produce for the arguments a.  traced: tf.cond
\* builds false_fn although the predicate is true (graph construction), so
\* that the ValueError of an invalid block_size surfaces on the identity
\* path too; in eager execution only the taken branch runs.
DropblockResults(a, traced) ==
    LET valid == BlockSizeList(a.block_size, SpatialNdim(a)).tag # "error"
        plan == DropblockPlan(a)
    IN  IF DropblockPred(a.is_training, a.dropout_rate)
        THEN IF traced /\ ~valid THEN {ErrorOut("ValueError")} ELSE {IdentityOut}
        ELSE IF ~valid THEN {ErrorOut("ValueError")}
        ELSE IF ~PoolSizeAccepted(plan.pool_size) THEN {ErrorOut("InvalidArgument")}
        ELSE {DropblockMasked(plan, seeds) :
                 seeds \in BernoulliSamples(plan.gamma, plan.channels, plan.inner_area)}

(***************************************************************************)
(* Inputs of a dropblock call.                                             *)
(***************************************************************************)
SpatialNdims == {1, 2}

SpatialShapes ==
    {dims \in UNION {[1..n -> 1..MaxExtent] : n \in SpatialNdims} : TRUE}

DataFormats == {"channels_first", "channels_last"}

\* [batch, channels, spatial...] or [batch, spatial..., channels]
ShapeOf(channels, dims, data_format) ==
    IF data_format = "channels_first" THEN <<1, channels>> \o dims
    ELSE <<1>> \o dims \o <<channels>>

BlockRequests == 0..(MaxExtent + 1)

BlockSizeArgs(ndim) ==
    {IntArg(b) : b \in BlockRequests}
      \cup {TupleArg(l) : l \in [1..ndim -> BlockRequests]}
      \cup {TupleArg(Repeat(1, ndim + 1)), FloatArg}

DropoutRates == {<<0, 1>>, <<1, 2>>, <<1, 1>>}

DropArgs ==
    UNION { [shape : {ShapeOf(c, dims, f)},
             dropout_rate : DropoutRates,
             block_size : BlockSizeArgs(Len(dims)),
             is_training : BOOLEAN,
             data_format : {f}] :
            <<c, dims, f>> \in {t \in (1..MaxChannels) \X SpatialShapes \X DataFormats :
                                   t[1] * NpProd(t[2]) <= MaxMaskSize} }

InitDrop ==
    /\ dropArgs \in {<<a>> : a \in DropArgs}
    /\ dropOut = <<>>
    /\ resArgs = NoArgs
    /\ resBlock = NoBlock

Dropblock ==
    /\ dropArgs # NoArgs
    /\ dropOut = <<>>
    /\ \E traced \in BOOLEAN :
         \E out \in DropblockResults(dropArgs[1], traced) : dropOut' = <<out>>
    /\ UNCHANGED <<dropArgs, resArgs, resBlock>>

NextDrop == Dropblock

SpecDrop == InitDrop /\ [][NextDrop]_vars

Dropped == dropOut # <<>>

(***************************************************************************)
(* Properties of ResBlock.__init__ (checked under SpecRes).                *)
(***************************************************************************)
ra == resArgs[1]
rb == resBlock[1]

\* the per-convolution filter list F of the arguments: a str is evaluated
\* and a scalar is repeated once per convolution token
ArgFilters ==
    LET f == IF ra.filters.tag = "str" THEN EvalFilters(ra.filters.s, ra.in_channels)
             ELSE ra.filters
    IN  IF f.tag = "int" THEN [i \in 1..NumConvs(ra.layout) |-> f.n] ELSE f.l

\* the main-path strides s of the arguments, a scalar repeated per token
ArgStrides ==
    IF ra.strides.tag = "int" THEN [i \in 1..NumConvs(ra.layout) |-> ra.strides.n]
    ELSE ra.strides.l

RECURSIVE Product(_)
Product(l) == IF Len(l) = 0 THEN 1 ELSE l[Len(l)] * Product(SubSeq(l, 1, Len(l) - 1))

ExpansionK == IF ra.bottleneck = BoolFlag(TRUE) THEN 4 ELSE ra.bottleneck.n
DownsampleD == IF ra.downsample = BoolFlag(TRUE) THEN 2 ELSE ra.downsample.n
BottleneckOn == ra.bottleneck \notin {BoolFlag(FALSE), IntFlag(0)}
DownsampleOn == ra.downsample \notin {BoolFlag(FALSE), IntFlag(0)}

\* the 1x1 reduce / expand entries the bottleneck wrapper adds around a list
Wrapped(l) == IF BottleneckOn THEN <<1>> \o l \o <<1>> ELSE l

\* every one of filters, kernel_size, strides, groups is an int or a sequence
\* with one entry per convolution token of the supplied layout
AllArgsMatch ==
    \A x \in {ra.filters, ra.kernel_size, ra.strides, ra.groups} :
        x.tag = "list" => Len(x.l) = NumConvs(ra.layout)

SomeArgMismatched ==
    \E x \in {ra.filters, ra.kernel_size, ra.strides, ra.groups} :
        x.tag = "list" /\ Len(x.l) # NumConvs(ra.layout)

\* C1 as stated: with bottleneck on, the resolved filters are
\* [input channel count] + F + [F[-1] * k].
C1_AsStated ==
    (Built /\ BottleneckOn /\ AllArgsMatch) =>
        rb.filters = <<ra.in_channels>> \o ArgFilters
                        \o <<ArgFilters[Len(ArgFilters)] * ExpansionK>>

\* C1 amended: with bottleneck on, the resolved filters are
\* [F[0]] + F + [F[0] * k], of length len(F) + 2: the reduce convolution takes
\* F's first entry, not the input channel count, and the expand convolution
\* scales F's first entry, not its last.
C1_BottleneckFilters ==
    (Built /\ BottleneckOn) =>
        /\ Len(rb.filters) = Len(ArgFilters) + 2
        /\ rb.filters[1] = ArgFilters[1]
        /\ SubSeq(rb.filters, 2, Len(rb.filters) - 1) = ArgFilters
        /\ rb.filters[Len(rb.filters)] = ArgFilters[1] * ExpansionK

C1_Witness ==
    /\ Built /\ AllArgsMatch /\ BottleneckOn
    /\ Len(ArgFilters) >= 2
    /\ ArgFilters[1] # ArgFilters[Len(ArgFilters)]
    /\ ArgFilters[1] # ra.in_channels
    /\ ExpansionK > 1

\* C2: the first repetition's strides are s with only the first supplied
\* convolution's entry times d and its side-branch stride is prod(s) * d; the
\* base strides and base side-branch stride are s and prod(s); the caller's
\* stride list is left as passed; with downsample falsy first = base.
C2_DownsampleFirstRepOnly ==
    Built =>
        LET s == ArgStrides
            d == IF DownsampleOn THEN DownsampleD ELSE 1
            sd == [i \in 1..Len(s) |-> IF i = 1 THEN s[i] * d ELSE s[i]]
        IN  /\ rb.layer_params[1].strides = Wrapped(sd)
            /\ rb.layer_params[1].side_branch_strides = Product(s) * d
            /\ rb.strides = Wrapped(s)
            /\ rb.side_branch.strides = Product(s)
            /\ ra.strides.tag = "list" => rb.caller_strides = ra.strides.l
            /\ ~DownsampleOn =>
                  /\ rb.layer_params[1].strides = rb.strides
                  /\ rb.layer_params[1].side_branch_strides = rb.side_branch.strides

C2_Witness ==
    /\ Built /\ AllArgsMatch /\ DownsampleOn /\ DownsampleD >= 2
    /\ ra.strides.tag = "list" /\ Len(ra.strides.l) >= 2
    /\ rb.caller_strides = ra.strides.l
    /\ rb.layer_params[1].strides # rb.strides
    /\ ra.n_reps >= 2

\* C3: in every repetition the side-branch stride is the product of that
\* repetition's main-path strides and the side-branch filter count is the
\* last entry of the resolved filter list.
C3_SideBranchMatchesMainPath ==
    Built =>
        \A i \in 1..NumRepetitions(rb) :
            /\ RepSideBranchStrides(rb, i) = Product(RepStrides(rb, i))
            /\ RepSideBranchFilters(rb, i) = rb.filters[Len(rb.filters)]

C3_Witness ==
    /\ Built /\ AllArgsMatch /\ DownsampleOn /\ DownsampleD >= 2 /\ BottleneckOn
    /\ NumRepetitions(rb) >= 2
    /\ Product(ArgStrides) > 1
    /\ RepSideBranchStrides(rb, 1) # RepSideBranchStrides(rb, 2)

\* C4 as stated: exactly n_reps parameter sets are handed over, and every
\* repetition after the first runs with stride 1 on every main-path
\* convolution and on the side branch.
C4_AsStated ==
    (Built /\ AllArgsMatch) =>
        /\ NumRepetitions(rb) = ra.n_reps
        /\ \A i \in 2..NumRepetitions(rb) :
              /\ \A j \in 1..Len(RepStrides(rb, i)) : RepStrides(rb, i)[j] = 1
              /\ RepSideBranchStrides(rb, i) = 1

\* C4 amended: max(n_reps, 1) parameter sets are handed over; only the first
\* carries strides_d and the downsample side-branch stride; every later set
\* is empty, so that repetition runs with the configured base strides and
\* the base side-branch stride prod(strides).
C4_RepetitionParams ==
    Built =>
        /\ NumRepetitions(rb) = (IF ra.n_reps >= 1 THEN ra.n_reps ELSE 1)
        /\ rb.layer_params[1].keys = {"strides", "side_branch/strides"}
        /\ \A i \in 2..NumRepetitions(rb) :
              /\ rb.layer_params[i].keys = {}
              /\ RepStrides(rb, i) = Wrapped(ArgStrides)
              /\ RepSideBranchStrides(rb, i) = Product(ArgStrides)

C4_Witness ==
    /\ Built /\ AllArgsMatch /\ ra.n_reps >= 2
    /\ NumRepetitions(rb) = ra.n_reps
    /\ Product(ArgStrides) > 1
    /\ RepSideBranchStrides(rb, 2) > 1

\* C5 as stated: for int or matching-sequence arguments every resolved list
\* (filters, kernel_size, strides, strides_d, groups) has one integer entry per
\* convolution token of the final layout.
C5_AsStated ==
    (Built /\ AllArgsMatch) =>
        LET n == NumConvs(rb.layout)
        IN  /\ Len(rb.filters) = n
            /\ Len(rb.kernel_size) = n
            /\ Len(rb.strides) = n
            /\ Len(rb.layer_params[1].strides) = n
            /\ Len(rb.groups) = n
            /\ \A i \in 1..Len(rb.groups) : rb.groups[i].tag = "int"

\* C7 as stated: a sequence argument whose length differs from the number of
\* convolution tokens makes the construction raise; nothing reaches the
\* builder.
C7_AsStated ==
    (resBlock # NoBlock /\ SomeArgMismatched) => rb.status = "error"

(***************************************************************************)
(* Properties of dropblock (checked under SpecDrop).                       *)
(***************************************************************************)
da == dropArgs[1]
do == dropOut[1]

ArgExtents ==
    IF da.data_format = "channels_first" THEN SubSeq(da.shape, 3, Len(da.shape))
    ELSE SubSeq(da.shape, 2, Len(da.shape) - 1)

ArgChannels ==
    IF da.data_format = "channels_first" THEN da.shape[2] ELSE da.shape[Len(da.shape)]

\* block_size passes the type and length checks
ValidBlockSize ==
    \/ da.block_size.tag = "int"
    \/ da.block_size.tag = "tuple" /\ Len(da.block_size.l) = Len(ArgExtents)

\* the request for dimension d
Request(d) == IF da.block_size.tag = "int" THEN da.block_size.n ELSE da.block_size.l[d]

Clamped(b, extent) == IF b < 1 THEN 1 ELSE IF b > extent THEN extent ELSE b

Masked == Dropped /\ do.status = "ok" /\ do.path = "masked"

\* C6: the input is returned unchanged whenever is_training is false or
\* dropout_rate is 0 (for a valid block_size), and the masking path is taken
\* only when is_training is true and dropout_rate is nonzero.
C6_IdentityWhenNotTrainingOrZeroRate ==
    Dropped =>
        /\ (ValidBlockSize /\ (~da.is_training \/ da.dropout_rate[1] = 0)) =>
              (do.status = "ok" /\ do.path = "identity" /\ do.seeds = {}
                 /\ do.scale = [num |-> 1, den |-> 1, finite |-> TRUE])
        /\ (do.status = "ok" /\ do.path = "masked") =>
              (da.is_training /\ da.dropout_rate[1] # 0)

C6_Witness ==
    /\ Dropped /\ ~da.is_training /\ da.dropout_rate[1] # 0 /\ ValidBlockSize
    /\ do.path = "identity"

\* C8 as stated: in every dimension the effective block size used for the
\* inner area, for the zero padding and for the max-pooling window alike is
\* the request clamped to [1, extent].
C8_AsStated ==
    Masked =>
        \A d \in 1..Len(ArgExtents) :
            LET b == Clamped(Request(d), ArgExtents[d])
            IN  /\ do.inner_area[d] = ArgExtents[d] - b + 1
                /\ do.left_pad[d] = (b - 1) \div 2
                /\ do.right_pad[d] = b - 1 - do.left_pad[d]
                /\ do.pool_size[d] = b

\* the positions along dimension d that the seed e alone drops
SeedSpan(e, d) ==
    LET one == MaxPoolingSame(PadMask({e}, do.left_pad), ArgChannels, ArgExtents, do.pool_size)
    IN  {x[2][d] : x \in one}

\* C9 as stated: for 1 <= b <= S every seed at inner index j drops exactly the
\* b consecutive positions j..j+b-1, all inside the extent, and every position
\* of the extent is dropped by some seed position.
C9_AsStated ==
    (Masked /\ \A d \in 1..Len(ArgExtents) : Request(d) \in 1..ArgExtents[d]) =>
        /\ \A e \in do.seeds : \A d \in 1..Len(ArgExtents) :
              SeedSpan(e, d) = e[2][d]..(e[2][d] + Request(d) - 1)
        /\ \A d \in 1..Len(ArgExtents) : \A x \in 0..(ArgExtents[d] - 1) :
              \E e \in Elements(ArgChannels, do.inner_area) : x \in SeedSpan(e, d)

\* C10: on the masking path a sampling that drops every mask element makes
\* the rescale divide by a kept-element sum of zero, unguarded: the output is
\* not finite.
C10_AllDroppedDividesByZero ==
    (Masked /\ do.dropped = Elements(ArgChannels, ArgExtents)) =>
        /\ da.is_training /\ da.dropout_rate[1] > 0
        /\ do.scale.den = 0
        /\ ~do.scale.finite

C10_Witness ==
    /\ Masked /\ da.is_training /\ da.dropout_rate[1] > 0
    /\ ArgChannels >= 2 /\ \E d \in 1..Len(ArgExtents) : ArgExtents[d] >= 2
    /\ \A d \in 1..Len(ArgExtents) : Request(d) >= ArgExtents[d]
    /\ \A c \in 1..ArgChannels : \E e \in do.seeds : e[1] = c
    /\ do.dropped = Elements(ArgChannels, ArgExtents)
    /\ do.scale.den = 0

====
